---- MODULE Spec2Model ----
(***************************************************************************)
(* Model of gnip_analysis_pipeline/evaluation/audience_api.py: the client  *)
(* that uploads user ids as segments of a remote audience service, builds  *)
(* an audience from them and queries it.                                   *)
(*                                                                         *)
(* Strings are sequences of one-character strings, so that concatenation,  *)
(* str(), hex() and re.search() are computed character by character.       *)
(* Every HTTP request is one atomic step of the caller that issues it: the *)
(* step holds the request, the answer of the remote service and the        *)
(* caller's code up to its next request.                                   *)
(***************************************************************************)
EXTENDS Integers, Sequences, FiniteSets, TLC

(***************************************************************************)
(* Bounds of the model.                                                    *)
(***************************************************************************)
\* longest collection of user ids handed to an entry point
MaxLen == 3
\* calls a caller makes, one after the other
MaxCalls == 2
\* largest chunk size handed to chunks / add_users directly
MaxSize == 3
\* longest duplicate-free list handed to chunks and to the partition of add_users
MaxFnLen == 5
\* calls two concurrent callers make between them
MaxConcCalls == 3
\* stand-ins for the defaults of add_users (100000 and 3000000 in the source),
\* scaled to the size of the collections above
max_upload_size_default == 1
max_segment_size_default == 2

\* user ids the callers draw from: 12 is the concatenation of 1 and 2
Ids == {1, 2, 12}
\* user ids of the duplicate-free lists
FnIds == 1..MaxFnLen

\* Python's None, for segment_id and audience_id (the ids of the service start at 1)
None == 0

(***************************************************************************)
(* Strings and lists.                                                      *)
(***************************************************************************)
DigitChars == <<"0", "1", "2", "3", "4", "5", "6", "7", "8", "9">>
HexChars == <<"0", "1", "2", "3", "4", "5", "6", "7", "8", "9",
              "a", "b", "c", "d", "e", "f">>

Range(s) == {s[k] : k \in DOMAIN s}

Min(a, b) == IF a <= b THEN a ELSE b

IsDigit(c) == \E k \in DOMAIN DigitChars : DigitChars[k] = c

DigitVal(c) == (CHOOSE k \in DOMAIN DigitChars : DigitChars[k] = c) - 1

\* str(i) of a non-negative int
RECURSIVE str(_)
str(i) == IF i < 10 THEN <<DigitChars[i + 1]>>
          ELSE str(i \div 10) \o <<DigitChars[(i % 10) + 1]>>

\* ''.join(parts)
RECURSIVE join(_)
join(parts) == IF parts = <<>> THEN <<>> ELSE Head(parts) \o join(Tail(parts))

\* l with x inserted before the first element greater than x
RECURSIVE insort(_, _)
insort(l, x) == IF l = <<>> THEN <<x>>
                ELSE IF x < Head(l) THEN <<x>> \o l
                ELSE <<Head(l)>> \o insort(Tail(l), x)

\* mutant of sorted: the list as given
sorted_as_given(l) == l

\* sorted(l) of a list of ints: ascending, duplicates kept
RECURSIVE sorted(_)
sorted(l) == IF l = <<>> THEN <<>> ELSE insort(sorted(Tail(l)), Head(l))

\* l[i:j] for 0 <= i, j: Python clamps both ends to len(l)
slice(l, i, j) == SubSeq(l, Min(i, Len(l)) + 1, Min(j, Len(l)))

\* list(set(l)): the elements of l once each, in the iteration order of the
\* set, which the language leaves to the implementation: any order
ListsOfSet(S) == {f \in [1..Cardinality(S) -> S] : Range(f) = S}

\* int(ceil(a / float(b))) for a >= 0 and b # 0
ceil_div(a, b) == IF b > 0 THEN (a + b - 1) \div b ELSE 0 - (a \div (0 - b))

(***************************************************************************)
(* chunks (lines 192-195).                                                 *)
(***************************************************************************)
\* xrange(start, stop, step), step # 0, as the list of its values
RECURSIVE xrange(_, _, _)
xrange(start, stop, step) ==
    IF step > 0
    THEN IF start >= stop THEN <<>>
         ELSE <<start>> \o xrange(start + step, stop, step)
    ELSE IF start <= stop THEN <<>>
         ELSE <<start>> \o xrange(start + step, stop, step)

\* xrange raises ValueError for a step of zero, when the generator is first advanced
chunks_raises(l, n) == n = 0

\* mutant of chunks: every slice one element short, l[i:i+n-1]
chunks_short(l, n) ==
    LET starts == xrange(0, Len(l), n)
    IN  [k \in DOMAIN starts |-> slice(l, starts[k], starts[k] + n - 1)]

\* the slices chunks(l, n) yields, n # 0
chunks(l, n) ==
    LET starts == xrange(0, Len(l), n)
    IN  [k \in DOMAIN starts |-> slice(l, starts[k], starts[k] + n)]

(***************************************************************************)
(* get_unique_id (lines 176-181).                                          *)
(***************************************************************************)
\* farmhash.hash64 is a library function: a fixed function from strings to
\* integers. The model takes one that is injective on the strings it meets
\* (digit strings of at most nine characters), so that every equality of
\* tokens it shows is an equality of the hashed strings.
RECURSIVE farmhash64(_)
farmhash64(s) == IF s = <<>> THEN 1
                 ELSE farmhash64(SubSeq(s, 1, Len(s) - 1)) * 10 + DigitVal(s[Len(s)])

RECURSIVE HexDigits(_)
HexDigits(n) == IF n < 16 THEN <<HexChars[n + 1]>>
                ELSE HexDigits(n \div 16) \o <<HexChars[(n % 16) + 1]>>

\* hex(n), n >= 0 (the 'L' Python 2 puts after the digits of a long is the
\* same for every token and is left out)
hex(n) == <<"0", "x">> \o HexDigits(n)

\* the string handed to the hash
hashable_str(user_ids) == join([k \in DOMAIN user_ids |-> str(sorted(user_ids)[k])])

get_unique_id(user_ids) ==
    LET h == hex(farmhash64(hashable_str(user_ids)))
    IN  SubSeq(h, 3, Len(h))


(***************************************************************************)
(* The state: the remote service, and the callers of this module.          *)
(***************************************************************************)
VARIABLES
    segments,   \* the service's segments, in listing order: [id, name, user_ids]
    audiences,  \* the service's audiences, in listing order: [id, name, segment_ids]
    call,       \* per caller: the locals of the call in progress
    prev,       \* per caller: its previous call, once returned
    ncalls,     \* per caller: calls begun so far
    fn          \* a lone application of chunks, get_unique_id or the sizing of add_users

vars == <<segments, audiences, call, prev, ncalls, fn>>

Procs == {1, 2}

\* the subclasses of AudienceApiException (lines 13-35)
AudienceApiException ==
    {"CredentialsException", "NoSegmentsFoundException", "AudienceTooSmallException",
     "SegmentDeleteException", "SegmentQueryException", "SegmentCreateException",
     "SegmentPostIdsException", "AudiencePostException", "AudienceInfoException"}

NoRet == [kind |-> "none", val |-> "", exc |-> ""]

Idle == [pc |-> "idle", entry |-> "", user_ids |-> <<>>, unique_id |-> <<>>,
         max_upload_size |-> 0, max_segment_size |-> 0,
         segs |-> <<>>, i |-> 0, segment_name |-> <<>>, uids |-> <<>>, num |-> 0,
         segment_id |-> None, segment_ids |-> <<>>, audience_id |-> None,
         ret |-> NoRet, reqs |-> <<>>, calls |-> <<>>]

NoPrev == [entry |-> "", user_ids |-> <<>>, unique_id |-> <<>>,
           max_upload_size |-> 0, max_segment_size |-> 0, ret |-> NoRet, reqs |-> <<>>]

FnIdle == [op |-> "none", l |-> <<>>, l2 |-> <<>>, n |-> 1, out |-> <<>>, out2 |-> <<>>,
           hs |-> <<>>, hs2 |-> <<>>, err |-> ""]

\* collections of user ids a caller may pass: any order, duplicates allowed
Inputs == UNION {[1..n -> Ids] : n \in 0..MaxLen}

\* one request of a call: the endpoint, the name or id it carries, and whether
\* the service answered with success
Req(req, name, id, ok) == [req |-> req, name |-> name, id |-> id, ok |-> ok]

Sent(c, req, name, id, ok) == [c EXCEPT !.reqs = Append(@, Req(req, name, id, ok))]

(***************************************************************************)
(* How a call ends.                                                        *)
(***************************************************************************)
\* mutant of Raise: query_users without its try/except, the exception reaches
\* the caller
Raise_uncaught(c, exc) ==
    [c EXCEPT !.pc = "done", !.ret = [kind |-> "raise", val |-> "", exc |-> exc]]

\* query_users, lines 184-190: an AudienceApiException becomes {'error': ...};
\* anything else, and any exception of a direct call, reaches the caller
Raise(c, exc) ==
    IF c.entry = "query_users" /\ exc \in AudienceApiException
    THEN [c EXCEPT !.pc = "done", !.ret = [kind |-> "return", val |-> "error", exc |-> exc]]
    ELSE [c EXCEPT !.pc = "done", !.ret = [kind |-> "raise", val |-> "", exc |-> exc]]

Returns(c, val) ==
    [c EXCEPT !.pc = "done", !.ret = [kind |-> "return", val |-> val, exc |-> ""]]

\* query_audience up to its first request (lines 120-126)
query_audience_begin(c) ==
    [c EXCEPT !.pc = "query_audience_segments", !.segment_ids = <<>>, !.audience_id = None]

\* add_users has returned: query_users goes on with query_audience (line 187)
add_users_return(c) ==
    IF c.entry = "query_users" THEN query_audience_begin(c) ELSE Returns(c, "None")

(***************************************************************************)
(* add_users (lines 37-52) and add_segment (lines 55-113).                 *)
(***************************************************************************)
\* mutant of num_segments: the division without float(), which rounds down
num_segments_floor(n, max_segment_size) ==
    IF max_segment_size > 0 THEN n \div max_segment_size
    ELSE ceil_div(n, max_segment_size)

num_segments(n, max_segment_size) == ceil_div(n, max_segment_size)

size_segments(n, max_segment_size) == ceil_div(n, num_segments(n, max_segment_size))

\* segment_name_base + '_' + str(i)
segment_name_of(segment_name_base, i) == segment_name_base \o <<"_">> \o str(i)

\* the serialized upload batches of add_segment (lines 69-72), l being
\* list(set(user_ids))
uids_json_encoded(l, max_upload_size) ==
    LET user_id_chunks == chunks(l, max_upload_size)
    IN  [k \in DOMAIN user_id_chunks |->
            [j \in DOMAIN user_id_chunks[k] |-> str(user_id_chunks[k][j])]]

\* add_segment up to its first request, for chunk i of the loop of add_users
add_segment_begin(c) ==
    LET user_ids == c.segs[c.i + 1]
        named == [c EXCEPT !.segment_name = segment_name_of(c.unique_id, c.i),
                           !.segment_id = None, !.num = 0, !.uids = <<>>,
                           !.calls = Append(@, [name |-> segment_name_of(c.unique_id, c.i),
                                                user_ids |-> user_ids])]
    IN  IF chunks_raises(user_ids, c.max_upload_size)
        THEN {Raise(named, "ValueError")}
        ELSE {[named EXCEPT !.pc = "add_segment_get",
                            !.uids = uids_json_encoded(l, c.max_upload_size)] :
                l \in ListsOfSet(Range(user_ids))}

\* mutant of add_segment_return: the loop of add_users is left after its
\* first chunk
add_segment_return_early(c) == {add_users_return(c)}

\* add_segment has returned: the loop of add_users goes on (line 50)
add_segment_return(c) ==
    IF c.i + 1 < Len(c.segs)
    THEN add_segment_begin([c EXCEPT !.i = c.i + 1])
    ELSE {add_users_return(c)}

\* add_users from its first line to the first request of its first add_segment
add_users_loop(c, unique_user_ids) ==
    LET n == Len(unique_user_ids) IN
    IF c.max_segment_size = 0 \/ num_segments(n, c.max_segment_size) = 0
    THEN {Raise(c, "ZeroDivisionError")}
    ELSE LET size == size_segments(n, c.max_segment_size)
             looping == [c EXCEPT !.segs = chunks(unique_user_ids, size), !.i = 0]
         IN  IF chunks_raises(unique_user_ids, size) THEN {Raise(c, "ValueError")}
             ELSE IF looping.segs = <<>> THEN {add_users_return(looping)}
             ELSE add_segment_begin(looping)

add_users_begin(c) ==
    UNION {add_users_loop(c, l) : l \in ListsOfSet(Range(c.user_ids))}

\* mutant of scan: no entry is ever taken for the name
scan_none(listing, name, found) == found

\* mutant of scan: the first entry of the listing is skipped
RECURSIVE scan_rest(_, _, _)
scan_rest(listing, name, found) ==
    IF listing = <<>> THEN found
    ELSE scan_rest(Tail(listing), name,
                   IF name = Head(listing).name THEN Head(listing).id ELSE found)

scan_skips_first(listing, name, found) ==
    IF listing = <<>> THEN found ELSE scan_rest(Tail(listing), name, found)

\* mutant of scan: the loop is left at the first entry with the name
RECURSIVE scan_first(_, _, _)
scan_first(listing, name, found) ==
    IF listing = <<>> THEN found
    ELSE IF name = Head(listing).name THEN Head(listing).id
    ELSE scan_first(Tail(listing), name, found)

\* the scan of a listing for a name (lines 85-89, 149-152): no break, so the
\* id kept is that of the last entry with that name
RECURSIVE scan(_, _, _)
scan(listing, name, found) ==
    IF listing = <<>> THEN found
    ELSE scan(Tail(listing), name,
              IF name = Head(listing).name THEN Head(listing).id ELSE found)

(***************************************************************************)
(* The remote service.                                                     *)
(***************************************************************************)
\* POST /segments {name}: a new, empty segment at the end of the listing
segment_created(name) ==
    Append(segments, [id |-> Len(segments) + 1, name |-> name, user_ids |-> {}])

\* POST /segments/{id}/ids {user_ids}: the batch joins the segment's ids
ids_posted(id, batch) ==
    [k \in DOMAIN segments |->
        IF segments[k].id = id
        THEN [segments[k] EXCEPT !.user_ids = @ \cup Range(batch)]
        ELSE segments[k]]

\* POST /audiences {name, segment_ids}
audience_created(name, segment_ids) ==
    Append(audiences, [id |-> Len(audiences) + 1, name |-> name,
                       segment_ids |-> segment_ids])

(***************************************************************************)
(* The entry points. A caller makes its calls one after the other.         *)
(***************************************************************************)
Begin(p, c) ==
    /\ call[p].pc = "idle"
    /\ ncalls[p] < MaxCalls
    /\ ncalls' = [ncalls EXCEPT ![p] = @ + 1]
    /\ UNCHANGED <<segments, audiences, prev, fn>>

\* query_users(user_ids, groupings), lines 183-187: get_unique_id, then
\* add_users with its default sizes
query_users_of(p, user_ids) ==
    LET c == [Idle EXCEPT !.entry = "query_users", !.user_ids = user_ids,
                          !.unique_id = get_unique_id(user_ids),
                          !.max_upload_size = max_upload_size_default,
                          !.max_segment_size = max_segment_size_default]
    IN  /\ Begin(p, c)
        /\ \E c2 \in add_users_begin(c) : call' = [call EXCEPT ![p] = c2]

query_users(p) == \E user_ids \in Inputs : query_users_of(p, user_ids)

\* the arguments of a direct call of add_users: a first call passes any
\* collection (add_users takes set(user_ids) first, so each multiset is passed
\* once, sorted) and any sizes; the call after it is the same call again: the
\* same set of user ids, in any order and with any repetition, the same
\* unique_id and the same sizes
add_users_args(p) ==
    IF prev[p].entry = "add_users"
    THEN {[user_ids |-> l, unique_id |-> prev[p].unique_id,
           max_upload_size |-> prev[p].max_upload_size,
           max_segment_size |-> prev[p].max_segment_size] :
            l \in {x \in Inputs : Range(x) = Range(prev[p].user_ids)}}
    ELSE {[user_ids |-> l, unique_id |-> get_unique_id(l),
           max_upload_size |-> mus, max_segment_size |-> mss] :
            l \in {x \in Inputs : x = sorted(x)},
            mus \in -1..MaxSize, mss \in -1..MaxSize}

\* add_users(user_ids, unique_id, max_upload_size, max_segment_size) called directly
add_users(p) ==
    /\ call[p].pc = "idle"
    /\ \E a \in add_users_args(p) :
        LET c == [Idle EXCEPT !.entry = "add_users", !.user_ids = a.user_ids,
                              !.unique_id = a.unique_id,
                              !.max_upload_size = a.max_upload_size,
                              !.max_segment_size = a.max_segment_size]
        IN  /\ Begin(p, c)
            /\ \E c2 \in add_users_begin(c) : call' = [call EXCEPT ![p] = c2]

\* query_audience(unique_id, groupings) called directly
query_audience(p) ==
    \E user_ids \in Inputs :
        LET c == [Idle EXCEPT !.entry = "query_audience",
                              !.unique_id = get_unique_id(user_ids)]
        IN  /\ Begin(p, c)
            /\ call' = [call EXCEPT ![p] = query_audience_begin(c)]

\* the call is over: the caller has its result and may call again
Return(p) ==
    /\ call[p].pc = "done"
    /\ prev' = [prev EXCEPT ![p] =
                    [entry |-> call[p].entry, user_ids |-> call[p].user_ids,
                     unique_id |-> call[p].unique_id,
                     max_upload_size |-> call[p].max_upload_size,
                     max_segment_size |-> call[p].max_segment_size,
                     ret |-> call[p].ret, reqs |-> call[p].reqs]]
    /\ call' = [call EXCEPT ![p] = Idle]
    /\ UNCHANGED <<segments, audiences, ncalls, fn>>

(***************************************************************************)
(* The requests of add_segment.                                            *)
(***************************************************************************)
\* GET /segments and the scan of the listing (lines 75-91)
add_segment_get(p) ==
    LET c == call[p] IN
    /\ c.pc = "add_segment_get"
    /\ UNCHANGED <<segments, audiences, prev, ncalls, fn>>
    /\ \E has_segments \in BOOLEAN :
        LET sent == Sent(c, "GET /segments", <<>>, None, has_segments)
            found == [sent EXCEPT !.segment_id = scan(segments, c.segment_name, None)]
        IN  \E c2 \in IF ~has_segments THEN {Raise(sent, "SegmentQueryException")}
                      ELSE IF found.segment_id = None
                           THEN {[found EXCEPT !.pc = "add_segment_post"]}
                           ELSE add_segment_return(found) :
                call' = [call EXCEPT ![p] = c2]

\* POST /segments (lines 93-101)
add_segment_post(p) ==
    LET c == call[p] IN
    /\ c.pc = "add_segment_post"
    /\ UNCHANGED <<audiences, prev, ncalls, fn>>
    /\ \E ok \in BOOLEAN :
        LET sent == Sent(c, "POST /segments", c.segment_name, None, ok)
            made == [sent EXCEPT !.segment_id = Len(segments) + 1, !.num = 0]
        IN  /\ segments' = IF ok THEN segment_created(c.segment_name) ELSE segments
            /\ call' = [call EXCEPT ![p] =
                    IF ~ok THEN Raise(sent, "SegmentCreateException")
                    \* line 113 reads segment_post_ids, unbound when no batch was sent
                    ELSE IF made.uids = <<>> THEN Raise(made, "UnboundLocalError")
                    ELSE [made EXCEPT !.pc = "add_segment_post_ids"]]

\* mutant of add_segment_post_ids: the status of the answer is not looked at,
\* the loop goes on to the next batch
add_segment_post_ids_unchecked(p) ==
    LET c == call[p] IN
    /\ c.pc = "add_segment_post_ids"
    /\ UNCHANGED <<audiences, prev, ncalls, fn>>
    /\ \E ok \in BOOLEAN :
        LET sent == Sent(c, "POST /segments/id/ids", c.segment_name, c.segment_id, ok)
        IN  /\ segments' = IF ok THEN ids_posted(c.segment_id, c.uids[c.num + 1])
                           ELSE segments
            /\ \E c2 \in IF c.num + 1 < Len(c.uids)
                         THEN {[sent EXCEPT !.num = c.num + 1]}
                         ELSE add_segment_return(sent) :
                    call' = [call EXCEPT ![p] = c2]

\* POST /segments/{id}/ids, one batch (lines 104-113)
add_segment_post_ids(p) ==
    LET c == call[p] IN
    /\ c.pc = "add_segment_post_ids"
    /\ UNCHANGED <<audiences, prev, ncalls, fn>>
    /\ \E ok \in BOOLEAN :
        LET sent == Sent(c, "POST /segments/id/ids", c.segment_name, c.segment_id, ok)
        IN  /\ segments' = IF ok THEN ids_posted(c.segment_id, c.uids[c.num + 1])
                           ELSE segments
            /\ \E c2 \in IF ~ok THEN {Raise(sent, "SegmentPostIdsException")}
                         ELSE IF c.num + 1 < Len(c.uids)
                              THEN {[sent EXCEPT !.num = c.num + 1]}
                              ELSE add_segment_return(sent) :
                    call' = [call EXCEPT ![p] = c2]

(***************************************************************************)
(* query_audience (lines 115-174).                                         *)
(***************************************************************************)
\* mutant of re_search: the name only has to begin with unique_id
re_search_prefix(unique_id, name) ==
    /\ Len(unique_id) <= Len(name)
    /\ SubSeq(name, 1, Len(unique_id)) = unique_id

\* re.search(r'{}_\d*$'.format(unique_id), name) is not None
re_search(unique_id, name) ==
    \E k \in 1..Len(name) :
        /\ k + Len(unique_id) <= Len(name)
        /\ SubSeq(name, k, k + Len(unique_id) - 1) = unique_id
        /\ name[k + Len(unique_id)] = "_"
        /\ \A j \in (k + Len(unique_id) + 1)..Len(name) : IsDigit(name[j])

\* mutant of matching_segment_ids: every listed segment is taken
matching_segment_ids_all(unique_id) == [k \in DOMAIN segments |-> segments[k].id]

\* mutant of matching_segment_ids: only the first listed segment that matches
\* is taken
matching_segment_ids_first(unique_id) ==
    LET Matches(entry) == re_search(unique_id, entry.name)
        hits == SelectSeq(segments, Matches)
    IN  IF hits = <<>> THEN <<>> ELSE <<hits[1].id>>

\* the ids of the listed segments whose name matches (lines 132-136)
matching_segment_ids(unique_id) ==
    LET Matches(entry) == re_search(unique_id, entry.name)
        hits == SelectSeq(segments, Matches)
    IN  [k \in DOMAIN hits |-> hits[k].id]

\* GET /segments (lines 128-138); a body without 'segments' is a KeyError
query_audience_segments(p) ==
    LET c == call[p] IN
    /\ c.pc = "query_audience_segments"
    /\ UNCHANGED <<segments, audiences, prev, ncalls, fn>>
    /\ \E has_segments \in BOOLEAN :
        LET sent == Sent(c, "GET /segments", <<>>, None, has_segments)
            found == [sent EXCEPT !.segment_ids = matching_segment_ids(c.unique_id)]
        IN  call' = [call EXCEPT ![p] =
                IF ~has_segments THEN Raise(sent, "KeyError")
                ELSE IF Len(found.segment_ids) = 0
                     THEN Raise(found, "NoSegmentsFoundException")
                     ELSE [found EXCEPT !.pc = "query_audience_audiences"]]

\* GET /audiences (lines 141-155); a body without 'audiences' is a KeyError
query_audience_audiences(p) ==
    LET c == call[p] IN
    /\ c.pc = "query_audience_audiences"
    /\ UNCHANGED <<segments, audiences, prev, ncalls, fn>>
    /\ \E has_audiences \in BOOLEAN :
        LET sent == Sent(c, "GET /audiences", <<>>, None, has_audiences)
            found == [sent EXCEPT !.audience_id = scan(audiences, c.unique_id, None)]
        IN  call' = [call EXCEPT ![p] =
                IF ~has_audiences THEN Raise(sent, "KeyError")
                ELSE IF found.audience_id = None
                     THEN [found EXCEPT !.pc = "query_audience_post"]
                     ELSE [found EXCEPT !.pc = "query_audience_query"]]

\* POST /audiences (lines 156-163)
query_audience_post(p) ==
    LET c == call[p] IN
    /\ c.pc = "query_audience_post"
    /\ UNCHANGED <<segments, prev, ncalls, fn>>
    /\ \E ok \in BOOLEAN :
        LET sent == Sent(c, "POST /audiences", c.unique_id, None, ok)
        IN  /\ audiences' = IF ok THEN audience_created(c.unique_id, c.segment_ids)
                            ELSE audiences
            /\ call' = [call EXCEPT ![p] =
                    IF ~ok THEN Raise(sent, "AudiencePostException")
                    ELSE [sent EXCEPT !.audience_id = Len(audiences) + 1,
                                      !.pc = "query_audience_query"]]

\* POST /audiences/{id}/query (lines 166-174)
query_audience_query(p) ==
    LET c == call[p] IN
    /\ c.pc = "query_audience_query"
    /\ UNCHANGED <<segments, audiences, prev, ncalls, fn>>
    /\ \E ok \in BOOLEAN :
        LET sent == Sent(c, "POST /audiences/id/query", c.unique_id, c.audience_id, ok)
        IN  call' = [call EXCEPT ![p] =
                IF ~ok THEN Raise(sent, "AudienceInfoException")
                ELSE Returns(sent, "results")]

(***************************************************************************)
(* Specifications. Spec: one caller of query_users and query_audience,     *)
(* call after call, the service answering each request with success or     *)
(* failure. SpecAddUsers: one caller of add_users.                         *)
(***************************************************************************)
Init ==
    /\ segments = <<>>
    /\ audiences = <<>>
    /\ call = [p \in Procs |-> Idle]
    /\ prev = [p \in Procs |-> NoPrev]
    /\ ncalls = [p \in Procs |-> 0]
    /\ fn = FnIdle

Next ==
    \/ query_users(1)
    \/ query_audience(1)
    \/ add_segment_get(1)
    \/ add_segment_post(1)
    \/ add_segment_post_ids(1)
    \/ query_audience_segments(1)
    \/ query_audience_audiences(1)
    \/ query_audience_post(1)
    \/ query_audience_query(1)
    \/ Return(1)

Spec == Init /\ [][Next]_vars

NextAddUsers ==
    \/ add_users(1)
    \/ add_segment_get(1)
    \/ add_segment_post(1)
    \/ add_segment_post_ids(1)
    \/ Return(1)

SpecAddUsers == Init /\ [][NextAddUsers]_vars

(***************************************************************************)
(* SpecNames: one caller of add_segment and query_audience. add_segment    *)
(* takes the segment name from its caller, so the listing can hold names   *)
(* other than those add_users builds.                                      *)
(***************************************************************************)
NameTokens == {get_unique_id(<<1>>), get_unique_id(<<2>>)}

\* for the tokens t, u: t, t_, t_0, t_10, ut_0 and t_0u
SegmentNames ==
    UNION {{t, t \o <<"_">>, t \o <<"_", "0">>, t \o <<"_", "1", "0">>} : t \in NameTokens}
    \cup {u \o t \o <<"_", "0">> : t \in NameTokens, u \in NameTokens}
    \cup {t \o <<"_", "0">> \o u : t \in NameTokens, u \in NameTokens}

\* add_segment(user_ids, segment_name) called directly, with the default
\* max_upload_size, up to its first request (lines 55-75)
add_segment(p) ==
    /\ call[p].pc = "idle"
    /\ \E user_ids \in {<<1>>, <<1, 2>>}, segment_name \in SegmentNames :
        LET c == [Idle EXCEPT !.entry = "add_segment", !.user_ids = user_ids,
                              !.max_upload_size = max_upload_size_default,
                              !.segs = <<user_ids>>, !.i = 0,
                              !.segment_name = segment_name,
                              !.calls = <<[name |-> segment_name, user_ids |-> user_ids]>>]
        IN  /\ Begin(p, c)
            /\ \E l \in ListsOfSet(Range(user_ids)) :
                call' = [call EXCEPT ![p] =
                    [c EXCEPT !.pc = "add_segment_get",
                              !.uids = uids_json_encoded(l, c.max_upload_size)]]

NextNames ==
    \/ add_segment(1)
    \/ query_audience(1)
    \/ add_segment_get(1)
    \/ add_segment_post(1)
    \/ add_segment_post_ids(1)
    \/ query_audience_segments(1)
    \/ query_audience_audiences(1)
    \/ query_audience_post(1)
    \/ query_audience_query(1)
    \/ Return(1)

SpecNames == Init /\ [][NextNames]_vars

(***************************************************************************)
(* SpecConc: two callers of query_users at the same time. Each request is  *)
(* one step, and the requests of the two calls interleave in any order.    *)
(***************************************************************************)
ConcInputs == {<<1>>, <<1, 2>>, <<12>>}

\* the two callers make MaxConcCalls calls between them
query_users_conc(p) ==
    /\ ncalls[1] + ncalls[2] < MaxConcCalls
    /\ \E user_ids \in ConcInputs : query_users_of(p, user_ids)

NextConc ==
    \E p \in Procs :
        \/ query_users_conc(p)
        \/ add_segment_get(p)
        \/ add_segment_post(p)
        \/ add_segment_post_ids(p)
        \/ query_audience_segments(p)
        \/ query_audience_audiences(p)
        \/ query_audience_post(p)
        \/ query_audience_query(p)
        \/ Return(p)

SpecConc == Init /\ [][NextConc]_vars

(***************************************************************************)
(* SpecFn: chunks and get_unique_id on their own, applied once to          *)
(* arguments drawn at the start.                                           *)
(***************************************************************************)
NoDup(l) == \A j, k \in DOMAIN l : j # k => l[j] # l[k]

\* duplicate-free lists of up to MaxFnLen ids
FnLists == UNION {{f \in [1..n -> FnIds] : NoDup(f)} : n \in 0..MaxFnLen}

InitFn ==
    /\ segments = <<>>
    /\ audiences = <<>>
    /\ call = [p \in Procs |-> Idle]
    /\ prev = [p \in Procs |-> NoPrev]
    /\ ncalls = [p \in Procs |-> 0]
    /\ \/ \E l \in Inputs, l2 \in Inputs : fn = [FnIdle EXCEPT !.l = l, !.l2 = l2]
       \/ \E l \in Inputs \cup FnLists, n \in -2..MaxSize :
            fn = [FnIdle EXCEPT !.l = l, !.n = n]

\* list(chunks(l, n)): the slices, or the ValueError of xrange
chunks_call ==
    /\ fn.op = "none"
    /\ fn.l2 = <<>>
    /\ fn' = IF chunks_raises(fn.l, fn.n)
             THEN [fn EXCEPT !.op = "chunks", !.err = "ValueError"]
             ELSE [fn EXCEPT !.op = "chunks", !.out = chunks(fn.l, fn.n)]
    /\ UNCHANGED <<segments, audiences, call, prev, ncalls>>

\* get_unique_id(l) and get_unique_id(l2)
get_unique_id_call ==
    /\ fn.op = "none"
    /\ fn.l \in Inputs
    /\ fn' = [fn EXCEPT !.op = "get_unique_id",
                        !.hs = hashable_str(fn.l), !.hs2 = hashable_str(fn.l2),
                        !.out = get_unique_id(fn.l), !.out2 = get_unique_id(fn.l2)]
    /\ UNCHANGED <<segments, audiences, call, prev, ncalls>>

NextFn == chunks_call \/ get_unique_id_call

SpecFn == InitFn /\ [][NextFn]_vars

(***************************************************************************)
(* Claims about get_unique_id and chunks, under SpecFn.                    *)
(***************************************************************************)
IsTokenPair == fn.op = "get_unique_id" /\ NoDup(fn.l) /\ NoDup(fn.l2)

\* C3: get_unique_id is order-independent: two permutations of the same
\* duplicate-free collection of ids give the same hashed string and the same token.
C3_OrderIndependent ==
    (IsTokenPair /\ Range(fn.l) = Range(fn.l2))
        => (fn.hs = fn.hs2 /\ fn.out = fn.out2)

\* C3 happens: two different orders of three ids, one token
C3_Witness ==
    /\ IsTokenPair
    /\ Range(fn.l) = Range(fn.l2)
    /\ Len(fn.l) = 3
    /\ fn.l # fn.l2
    /\ fn.l # sorted(fn.l)
    /\ fn.out = fn.out2

\* C5: two collections that differ as sets get different hashed strings, and so
\* (the hash being injective) different tokens.
C5_DistinctSetsDistinctTokens ==
    (IsTokenPair /\ Range(fn.l) # Range(fn.l2))
        => (fn.hs # fn.hs2 /\ fn.out # fn.out2)

\* C8: for a chunk size n > 0, chunks yields ceil(len(l) / n) slices, every
\* slice but the last of length n, the last of length 1..n, and the slices
\* joined in order give l back (no slice for the empty list).
C8_Chunks ==
    (fn.op = "chunks" /\ fn.n > 0) =>
        /\ fn.err = ""
        /\ Len(fn.out) * fn.n >= Len(fn.l)
        /\ Len(fn.out) > 0 => (Len(fn.out) - 1) * fn.n < Len(fn.l)
        /\ \A k \in DOMAIN fn.out :
            /\ k < Len(fn.out) => Len(fn.out[k]) = fn.n
            /\ Len(fn.out[k]) \in 1..fn.n
        /\ join(fn.out) = fn.l

\* C8 happens: several slices, the last one shorter
C8_Witness ==
    /\ fn.op = "chunks"
    /\ fn.n > 1
    /\ Len(fn.out) >= 3
    /\ Len(fn.out[Len(fn.out)]) < fn.n

\* C9: chunks called with a size <= 0 fails with an error: for a non-empty
\* list it never silently yields an empty or partial list of slices.
C9_NonPositiveSizeFails ==
    (fn.op = "chunks" /\ fn.n <= 0 /\ fn.l # <<>>) => fn.err # ""

(***************************************************************************)
(* Claims about query_users and query_audience, under Spec.                *)
(***************************************************************************)
\* the positions in the request log of a call of the requests to an endpoint
ReqsTo(reqs, req) == {k \in DOMAIN reqs : reqs[k].req = req}

OkReqsTo(reqs, req) == {k \in ReqsTo(reqs, req) : reqs[k].ok}

\* C2: every call of query_users ends by returning the query result or
\* {'error': message}; no failure leaves query_users as an exception.
C2_NoExceptionEscapes ==
    \A p \in Procs :
        (call[p].entry = "query_users" /\ call[p].pc = "done")
            => (call[p].ret.kind = "return" /\ call[p].ret.val \in {"results", "error"})

\* C4: query_users called with a collection that repeats ids uses the token of
\* the collection with the repetitions removed.
C4_DuplicatesCollapsed ==
    \A p \in Procs :
        call[p].entry = "query_users"
            => \A l \in ListsOfSet(Range(call[p].user_ids)) :
                    call[p].unique_id = get_unique_id(l)

\* the audiences of the service with a given name
AudiencesNamed(name) == {k \in DOMAIN audiences : audiences[k].name = name}

Repeated(p) ==
    /\ prev[p].entry = "add_users"
    /\ call[p].entry = "add_users"
    /\ Range(call[p].user_ids) = Range(prev[p].user_ids)
    /\ call[p].unique_id = prev[p].unique_id
    /\ call[p].max_upload_size = prev[p].max_upload_size
    /\ call[p].max_segment_size = prev[p].max_segment_size

\* over both calls no segment name is created twice
CreatedOnce(p) ==
    LET both == prev[p].reqs \o call[p].reqs
    IN  \A j, k \in OkReqsTo(both, "POST /segments") : j # k => both[j].name # both[k].name

\* ids are uploaded to a segment only by the call that created it
UploadsFollowCreation(p) ==
    LET both == prev[p].reqs \o call[p].reqs
    IN  \A u \in ReqsTo(call[p].reqs, "POST /segments/id/ids") :
            /\ \E k \in OkReqsTo(call[p].reqs, "POST /segments") :
                    k < u /\ call[p].reqs[k].name = call[p].reqs[u].name
            /\ \A k \in OkReqsTo(prev[p].reqs, "POST /segments") :
                    prev[p].reqs[k].name # call[p].reqs[u].name

OnlyListing(reqs) == \A k \in DOMAIN reqs : reqs[k].req = "GET /segments"

Ceil(a, b) == CHOOSE m \in 0..a : (m - 1) * b < a /\ a <= m * b

\* the calls of add_segment made so far are those of the first indices, in
\* order, on pairwise disjoint chunks of the ids of at most max_segment_size
\* ids, each but the last of the whole partition of ceil(N / num_segments) ids
ChunksInOrder(c) ==
    LET ids == Range(c.user_ids)
        n == Cardinality(ids)
        k == Ceil(n, c.max_segment_size)
    IN  /\ Len(c.calls) <= k
        /\ \A j \in DOMAIN c.calls :
            /\ c.calls[j].name = segment_name_of(c.unique_id, j - 1)
            /\ NoDup(c.calls[j].user_ids)
            /\ Range(c.calls[j].user_ids) \subseteq ids
            /\ Len(c.calls[j].user_ids) \in 1..c.max_segment_size
            /\ j < k => Len(c.calls[j].user_ids) = Ceil(n, k)
        /\ \A i, j \in DOMAIN c.calls :
            i # j => Range(c.calls[i].user_ids) \cap Range(c.calls[j].user_ids) = {}

\* the calls of add_segment made are all ceil(N / max_segment_size) of them
\* and their chunks hold every id
AllChunks(c) ==
    /\ Len(c.calls) = Ceil(Cardinality(Range(c.user_ids)), c.max_segment_size)
    /\ UNION {Range(c.calls[j].user_ids) : j \in DOMAIN c.calls} = Range(c.user_ids)

\* a call of add_users the claim is about: N >= 1 ids, max_segment_size >= 1
Partitioning(c) ==
    c.entry = "add_users" /\ c.user_ids # <<>> /\ c.max_segment_size >= 1

AudienceSide == {"GET /audiences", "POST /audiences", "POST /audiences/id/query"}

\* C11: when POST /segments is answered with a failure during query_users,
\* that request is the last one of the call: no ids are posted for the
\* segment, no later segment is processed, no audience request is issued, and
\* query_users returns the error of SegmentCreateException.
C11_CreateFailureEndsCall ==
    \A p \in Procs :
        LET c == call[p] IN
        c.entry = "query_users" =>
            \A k \in DOMAIN c.reqs :
                (c.reqs[k].req = "POST /segments" /\ ~c.reqs[k].ok) =>
                    /\ k = Len(c.reqs)
                    /\ c.pc = "done"
                    /\ c.ret = [kind |-> "return", val |-> "error",
                                exc |-> "SegmentCreateException"]
                    /\ c.calls # <<>>
                    /\ c.calls[Len(c.calls)].name = c.reqs[k].name
                    /\ \A j \in DOMAIN c.reqs :
                        /\ c.reqs[j].req \notin AudienceSide
                        /\ c.reqs[j].req = "POST /segments/id/ids" =>
                                c.reqs[j].name # c.reqs[k].name
                    /\ \A s \in DOMAIN segments : segments[s].name # c.reqs[k].name

\* the creation of the first of two segments has failed
C11_Witness ==
    /\ call[1].entry = "query_users"
    /\ call[1].ret.exc = "SegmentCreateException"
    /\ Len(call[1].calls) = 1
    /\ Len(call[1].segs) = 2

(***************************************************************************)
(* The segments query_audience selects.                                    *)
(***************************************************************************)
\* query_audience has listed the segments and made its selection (line 136)
Selected(c) ==
    \/ c.pc \in {"query_audience_audiences", "query_audience_post", "query_audience_query"}
    \/ /\ c.pc = "done"
       /\ \/ ReqsTo(c.reqs, "GET /audiences") # {}
          \/ c.ret.exc = "NoSegmentsFoundException"

\* C12: a segment whose name is exactly unique_id, without the underscore and
\* digits, is never among the segments query_audience selects for unique_id.
C12_BareNameNotSelected ==
    \A p \in Procs :
        LET c == call[p] IN
        \A s \in DOMAIN segments :
            segments[s].name = c.unique_id => segments[s].id \notin Range(c.segment_ids)

\* query_audience has listed a segment named exactly unique_id and found no
\* segment to select
C12_Witness ==
    /\ call[1].entry = "query_audience"
    /\ call[1].ret.exc = "NoSegmentsFoundException"
    /\ \E s \in DOMAIN segments : segments[s].name = call[1].unique_id

(***************************************************************************)
(* Calls that overlap.                                                     *)
(***************************************************************************)
StrsOf(user_ids) == {str(x) : x \in Range(user_ids)}

\* C13: two invocations of query_users that overlap, for different sets of
\* ids, do not affect each other's segments: a segment one of them selects for
\* its audience holds no id that only the other one was given.
C13_DifferentSetsIndependent ==
    \A p, q \in Procs :
        LET c == call[p]
            d == call[q]
        IN  ( /\ p # q
              /\ ncalls[p] = 1 /\ ncalls[q] = 1
              /\ c.entry = "query_users" /\ d.entry = "query_users"
              /\ Range(c.user_ids) # Range(d.user_ids) ) =>
                \A s \in DOMAIN segments :
                    segments[s].id \in Range(c.segment_ids) =>
                        segments[s].user_ids \cap StrsOf(d.user_ids) \subseteq StrsOf(c.user_ids)

\* two overlapping invocations for the same set have each created the segment
\* and the audience of the token
C13_BothCreated ==
    /\ ncalls[1] = 1 /\ ncalls[2] = 1
    /\ Range(call[1].user_ids) = Range(call[2].user_ids)
    /\ \E s, t \in DOMAIN segments : s # t /\ segments[s].name = segments[t].name
    /\ \E a, b \in DOMAIN audiences : a # b /\ audiences[a].name = audiences[b].name

(***************************************************************************)
(* The order of the requests of one call.                                  *)
(***************************************************************************)
\* this step, caller p issues a request of one of the kinds
Issued(p, kinds) ==
    /\ call[p].pc \notin {"idle", "done"}
    /\ Len(call'[p].reqs) = Len(call[p].reqs) + 1
    /\ call'[p].reqs[Len(call'[p].reqs)].req \in kinds

ReqsFor(c, req, name) ==
    {k \in DOMAIN c.reqs : c.reqs[k].req = req /\ c.reqs[k].name = name}

\* chunk j of the call is on the remote: found there by name, or created by
\* this call with every batch of it uploaded
EnsuredChunk(c, j) ==
    LET name == c.calls[j].name
        chunk == c.calls[j].user_ids
        posts == ReqsFor(c, "POST /segments", name)
        uploads == {k \in ReqsFor(c, "POST /segments/id/ids", name) : c.reqs[k].ok}
    IN  /\ \E s \in DOMAIN segments : segments[s].name = name
        /\ \/ posts = {}
           \/ /\ Cardinality(posts) = 1
              /\ \A k \in posts : c.reqs[k].ok
              /\ Cardinality(uploads) = Ceil(Len(chunk), c.max_upload_size)
              /\ \E s \in DOMAIN segments :
                    /\ segments[s].name = name
                    /\ StrsOf(chunk) \subseteq segments[s].user_ids

\* every segment of the identifier set of the call is on the remote
Ensured(c) ==
    /\ Len(c.segs) = Ceil(Cardinality(Range(c.user_ids)), c.max_segment_size)
    /\ Len(c.calls) = Len(c.segs)
    /\ \A j \in DOMAIN c.calls :
        /\ c.calls[j].name = segment_name_of(c.unique_id, j - 1)
        /\ EnsuredChunk(c, j)

\* C14: within one query_users call the requests follow the program order:
\* a POST /segments comes right after the successful GET /segments of the same
\* add_segment call, POST /audiences right after a successful GET /audiences,
\* and no request of query_audience (its segment listing, GET /audiences,
\* POST /audiences, the audience query) is issued before every segment of the
\* identifier set is found or created with all its batches uploaded.
C14_ProgramOrder ==
    [][\A p \in Procs :
        LET c == call[p]
            n == Len(c.reqs)
        IN  c.entry = "query_users" =>
            /\ Issued(p, {"POST /segments"}) =>
                /\ n > 0
                /\ c.reqs[n].req = "GET /segments" /\ c.reqs[n].ok
                /\ c.calls # <<>>
                /\ call'[p].reqs[n + 1].name = c.calls[Len(c.calls)].name
                /\ ReqsFor(c, "POST /segments", c.calls[Len(c.calls)].name) = {}
            /\ Issued(p, {"POST /audiences"}) =>
                /\ n > 0
                /\ c.reqs[n].req = "GET /audiences" /\ c.reqs[n].ok
            /\ ( \/ Issued(p, AudienceSide)
                 \/ c.pc = "query_audience_segments" /\ Issued(p, {"GET /segments"}) ) =>
                    Ensured(c)]_vars

\* query_users has created two segments and posted the audience
C14_Witness ==
    /\ call[1].entry = "query_users"
    /\ Cardinality(ReqsTo(call[1].reqs, "POST /segments")) = 2
    /\ ReqsTo(call[1].reqs, "POST /audiences") # {}
    /\ call[1].ret.val = "results"

(***************************************************************************)
(* The uploads of a new segment.                                           *)
(***************************************************************************)
\* the ids of the first n batches of the segment being uploaded
Uploaded(c, n) == UNION {Range(c.uids[j]) : j \in 1..n}

\* the segment the call has created holds the first c.num batches, nothing else
HoldsBatchesSoFar(c) ==
    /\ c.num <= Len(c.uids)
    /\ Cardinality(ReqsFor(c, "POST /segments/id/ids", c.segment_name)) \in {c.num, c.num + 1}
    /\ \E s \in DOMAIN segments :
        /\ segments[s].id = c.segment_id
        /\ segments[s].name = c.segment_name
        /\ segments[s].user_ids = Uploaded(c, c.num)

\* C15: the batches of a new segment are uploaded in order, and the first
\* batch answered with a failure ends add_segment with
\* SegmentPostIdsException: it is the last request of the call (no further
\* batch, no retry, no rollback), and the segment stays on the remote with
\* the batches uploaded before it.
C15_UploadStopsAtFirstFailure ==
    \A p \in Procs :
        LET c == call[p] IN
        /\ c.pc = "add_segment_post_ids" => HoldsBatchesSoFar(c)
        /\ \A k \in DOMAIN c.reqs :
            (c.reqs[k].req = "POST /segments/id/ids" /\ ~c.reqs[k].ok) =>
                /\ k = Len(c.reqs)
                /\ c.pc = "done"
                /\ c.ret.exc = "SegmentPostIdsException"
                /\ c.num < Len(c.uids)
                /\ Cardinality(ReqsFor(c, "POST /segments/id/ids", c.segment_name)) = c.num + 1
                /\ \A j \in ReqsFor(c, "POST /segments/id/ids", c.segment_name) :
                        j < k => c.reqs[j].ok
                /\ HoldsBatchesSoFar(c)

\* the second of three batches has failed
C15_Witness ==
    /\ call[1].ret.exc = "SegmentPostIdsException"
    /\ call[1].num = 1
    /\ Len(call[1].uids) = 3

\* name is unique_id, an underscore, and one or more digits
IsSegmentOf(unique_id, name) ==
    /\ Len(name) > Len(unique_id) + 1
    /\ SubSeq(name, 1, Len(unique_id)) = unique_id
    /\ name[Len(unique_id) + 1] = "_"
    /\ \A j \in (Len(unique_id) + 2)..Len(name) : IsDigit(name[j])

\* C16: the segments query_audience selects for unique_id are exactly the
\* listed segments whose whole name is unique_id, an underscore, and one or
\* more digits: not a longer name that ends that way, not unique_id with a
\* bare underscore.
C16_ExactlyOwnSegments ==
    \A p \in Procs :
        LET c == call[p] IN
        Selected(c) =>
            \A s \in DOMAIN segments :
                segments[s].id \in Range(c.segment_ids)
                    <=> IsSegmentOf(c.unique_id, segments[s].name)

(***************************************************************************)
(* Listings with several entries of one name.                              *)
(***************************************************************************)
Named(listing, name) == {k \in DOMAIN listing : listing[k].name = name}

FirstNamed(listing, name) ==
    listing[CHOOSE k \in Named(listing, name) : \A j \in Named(listing, name) : k <= j].id

LastNamed(listing, name) ==
    listing[CHOOSE k \in Named(listing, name) : \A j \in Named(listing, name) : k >= j].id

\* this step, caller p has listed the segments in add_segment and found the name
FoundSegment(p) ==
    /\ call[p].pc = "add_segment_get"
    /\ Issued(p, {"GET /segments"})
    /\ call'[p].reqs[Len(call'[p].reqs)].ok
    /\ Named(segments, call[p].segment_name) # {}
    /\ call'[p].segment_name = call[p].segment_name

\* this step, caller p has listed the audiences and found the name
FoundAudience(p) ==
    /\ Issued(p, {"GET /audiences"})
    /\ call'[p].reqs[Len(call'[p].reqs)].ok
    /\ Named(audiences, call[p].unique_id) # {}

\* C17 as stated: when the listing holds several segments (add_segment) or
\* several audiences (query_audience) of the searched name, the id taken is
\* that of the first of them in listing order.
C17_FirstMatchUsed ==
    [][\A p \in Procs :
        /\ FoundSegment(p) =>
                call'[p].segment_id = FirstNamed(segments, call[p].segment_name)
        /\ FoundAudience(p) =>
                call'[p].audience_id = FirstNamed(audiences, call[p].unique_id)]_vars

\* C17, amended: when the listing holds several segments (add_segment) or
\* several audiences (query_audience) of the searched name, the id taken is
\* that of the last of them in listing order.
C17_LastMatchUsed ==
    [][\A p \in Procs :
        /\ FoundSegment(p) =>
                call'[p].segment_id = LastNamed(segments, call[p].segment_name)
        /\ FoundAudience(p) =>
                call'[p].audience_id = LastNamed(audiences, call[p].unique_id)]_vars

\* a call has found its segment and its audience in listings that hold two of
\* the name, and goes on with the second audience
C17_Witness ==
    \E p \in Procs :
        /\ call[p].pc = "query_audience_query"
        /\ ReqsTo(call[p].reqs, "POST /segments") = {}
        /\ ReqsTo(call[p].reqs, "POST /audiences") = {}
        /\ Cardinality(Named(segments, call[p].segment_name)) = 2
        /\ Cardinality(Named(audiences, call[p].unique_id)) = 2
        /\ call[p].segment_id = LastNamed(segments, call[p].segment_name)
        /\ call[p].audience_id = LastNamed(audiences, call[p].unique_id)
        /\ call[p].audience_id # FirstNamed(audiences, call[p].unique_id)

(***************************************************************************)
(* What a successful query_users call rests on.                            *)
(***************************************************************************)
\* some segment unique_id_<index> holds the id
UploadedFor(c, x) ==
    \E s \in DOMAIN segments :
        /\ IsSegmentOf(c.unique_id, segments[s].name)
        /\ str(x) \in segments[s].user_ids

\* C18: whenever a query_users call returns a query result, every id of its
\* input has been uploaded to one of the segments unique_id_<index>; stated
\* for a call that follows a call for the same set of ids.
C18_ResultImpliesUploaded ==
    \A p \in Procs :
        LET c == call[p] IN
        ( /\ c.entry = "query_users"
          /\ c.ret.val = "results"
          /\ prev[p].entry = "query_users"
          /\ Range(prev[p].user_ids) = Range(c.user_ids) ) =>
                \A x \in Range(c.user_ids) : UploadedFor(c, x)

\* C19: whenever a query_users call issues POST /audiences for its token, the
\* segments token_0 .. token_(k-1), k = ceil(N / max_segment_size) for the N
\* distinct ids of the call, are all on the remote and the segment_ids of the
\* request hold the id of each of them; the audience a successful request
\* creates has these segment_ids.
C19_AudienceFromAllSegments ==
    [][\A p \in Procs :
        LET c == call[p]
            k == Ceil(Cardinality(Range(c.user_ids)), c.max_segment_size)
        IN  (c.entry = "query_users" /\ Issued(p, {"POST /audiences"})) =>
                /\ k >= 1
                /\ \A i \in 0..(k - 1) :
                    \E s \in DOMAIN segments :
                        /\ segments[s].name = segment_name_of(c.unique_id, i)
                        /\ segments[s].id \in Range(c.segment_ids)
                /\ call'[p].reqs[Len(call'[p].reqs)].ok =>
                    /\ Len(audiences') = Len(audiences) + 1
                    /\ audiences'[Len(audiences')].name = c.unique_id
                    /\ audiences'[Len(audiences')].segment_ids = c.segment_ids]_vars

\* after an earlier call that failed, a query_users call has posted the
\* audience of a token with two segments
C19_Witness ==
    /\ call[1].entry = "query_users"
    /\ prev[1].ret.val = "error"
    /\ OkReqsTo(call[1].reqs, "POST /audiences") # {}
    /\ Len(call[1].segment_ids) = 2
    /\ Len(audiences) = 1
    /\ Len(audiences[1].segment_ids) = 2

====
